---------------------------- MODULE Spec2Model ----------------------------
(***************************************************************************)
(* detect_version: the Analyzer (an ast.NodeVisitor) walks the syntax tree *)
(* of one script, looks the constructs it recognises up in four changelogs *)
(* and accumulates the requirements and the minimum Python version.        *)
(*                                                                         *)
(* Python values are represented as follows.                               *)
(*   str    a sequence of tokens.  A version string is spelled character   *)
(*          by character (<<"3", ".", "1", "0">> is '3.10'); a name is     *)
(*          spelled identifier by identifier with "." tokens between them  *)
(*          (<<"os", ".", "path">> is 'os.path').                          *)
(*   None   the value None, distinct from every str.                       *)
(*   dict   a function; its DOMAIN is the key set.                         *)
(*   node   a record [kind, id, aux, n, kids]: the class of the ast node,  *)
(*          its string fields, its integer field and its child nodes in    *)
(*          the order of the class's _fields (the order generic_visit      *)
(*          iterates them).  Context and operator marker nodes (Load,      *)
(*          Store, BitOr, ...) have no fields and no handler and are left  *)
(*          out.                                                           *)
(***************************************************************************)
EXTENDS Integers, Sequences, FiniteSets, TLC

VARIABLES
    tree,                   \* the parsed script handed to Analyzer.visit
    todo,                   \* nodes whose visit is pending (recursion stack)
    features,               \* Changelog('data/language.json')
    exceptions,             \* Changelog('data/exceptions.json')
    functions,              \* Changelog('data/functions.json')
    modules,                \* Changelog('data/modules.json')
    detected_version,       \* self.detected_version
    language_requirements,  \* self.language_requirements
    module_requirements,    \* self.module_requirements
    imported,               \* self.imported
    lookups,                \* history: every (changelog, key) looked up for
                            \* a trigger ("registry": a value tested
                            \* against the generic types registry)
    error,                  \* the exception that ended the traversal
    message,                \* its message, str(exception)
    args,                   \* inputs of a stand-alone function call
    result                  \* its result

vars == <<tree, todo, features, exceptions, functions, modules,
          detected_version, language_requirements, module_requirements,
          imported, lookups, error, message, args, result>>

(***************************************************************************)
(* Bounds                                                                  *)
(***************************************************************************)
\* Statements in the body of a script.
MaxStmts == 2

(***************************************************************************)
(* Strings                                                                 *)
(***************************************************************************)
None == <<"None">>

Falsy(v) == v = None \/ v = <<>>

startswith(s, prefix) ==
    /\ Len(s) >= Len(prefix)
    /\ SubSeq(s, 1, Len(prefix)) = prefix

Min(S) == CHOOSE m \in S : \A k \in S : m <= k

Digit == {"0", "1", "2", "3", "4", "5", "6", "7", "8", "9"}

DigitVal(c) ==
    CASE c = "0" -> 0 [] c = "1" -> 1 [] c = "2" -> 2 [] c = "3" -> 3
      [] c = "4" -> 4 [] c = "5" -> 5 [] c = "6" -> 6 [] c = "7" -> 7
      [] c = "8" -> 8 [] c = "9" -> 9

\* str.split('.'): the pieces between the "." tokens (always at least one).
RECURSIVE split(_)
split(s) ==
    LET dots == {i \in 1..Len(s) : s[i] = "."}
    IN  IF dots = {} THEN <<s>>
        ELSE <<SubSeq(s, 1, Min(dots) - 1)>>
             \o split(SubSeq(s, Min(dots) + 1, Len(s)))

\* str.strip(): without the blanks at both ends.
strip(s) ==
    LET inked == {i \in 1..Len(s) : s[i] # " "}
    IN  IF inked = {} THEN <<>>
        ELSE SubSeq(s, Min(inked),
                    CHOOSE m \in inked : \A k \in inked : k <= m)

\* The digits and underscores of an integer literal, after the blanks
\* around it and its sign.
Numeral(s) ==
    LET t == strip(s)
    IN  IF t # <<>> /\ t[1] \in {"-", "+"} THEN Tail(t) ELSE t

\* int(s) succeeds on blanks, an optional sign, and decimal digits with
\* single underscores between them, followed by blanks.
IsInt(s) ==
    LET body == Numeral(s)
    IN  /\ body # <<>>
        /\ \A i \in 1..Len(body) : body[i] \in Digit \cup {"_"}
        /\ body[1] \in Digit /\ body[Len(body)] \in Digit
        /\ \A i \in 1..(Len(body) - 1) :
               ~(body[i] = "_" /\ body[i + 1] = "_")

RECURSIVE Magnitude(_)
Magnitude(s) ==
    IF s = <<>> THEN 0
    ELSE 10 * Magnitude(SubSeq(s, 1, Len(s) - 1)) + DigitVal(s[Len(s)])

int(s) ==
    LET digit(c) == c \in Digit
        value    == Magnitude(SelectSeq(Numeral(s), digit))
    IN  IF strip(s)[1] = "-" THEN 0 - value ELSE value

(***************************************************************************)
(* src/version.py                                                          *)
(***************************************************************************)
\* The variant without the test for negative numbers.
valid_version_signed(version) ==
    IF Falsy(version) THEN TRUE
    ELSE LET parts == split(version)
         IN  /\ \A i \in 1..Len(parts) : IsInt(parts[i])
             /\ Len(parts) >= 2 /\ Len(parts) <= 3
             /\ int(parts[1]) = 3

valid_version(version) ==
    IF Falsy(version) THEN TRUE
    ELSE LET parts == split(version)
         IN  /\ \A i \in 1..Len(parts) : IsInt(parts[i])
             /\ Len(parts) >= 2 /\ Len(parts) <= 3
             /\ \A i \in 1..Len(parts) : int(parts[i]) >= 0
             /\ int(parts[1]) = 3

\* Version(version) constructs (it raises ValueError otherwise).
Version(version) == valid_version(version)

as_tuple(version) ==
    IF Falsy(version) THEN <<>>
    ELSE LET parts == split(version)
         IN  [i \in 1..Len(parts) |-> int(parts[i])]

\* The variant that compares the zipped elements only, so that a proper
\* prefix is not smaller.
tuple_lt_zip(s, t) ==
    LET n     == IF Len(s) < Len(t) THEN Len(s) ELSE Len(t)
        diffs == {i \in 1..n : s[i] # t[i]}
    IN  IF diffs = {} THEN FALSE
        ELSE s[Min(diffs)] < t[Min(diffs)]

\* Python's tuple comparison: the first differing element decides, and a
\* proper prefix is the smaller.
tuple_lt(s, t) ==
    LET n     == IF Len(s) < Len(t) THEN Len(s) ELSE Len(t)
        diffs == {i \in 1..n : s[i] # t[i]}
    IN  IF diffs = {} THEN Len(s) < Len(t)
        ELSE s[Min(diffs)] < t[Min(diffs)]

\* Comparing the strings themselves, token by token.
string_lt(a, b) ==
    LET code(c) == IF c \in Digit THEN DigitVal(c) + 2 ELSE 0
    IN  tuple_lt([i \in 1..Len(a) |-> code(a[i])],
                 [i \in 1..Len(b) |-> code(b[i])])

\* The variant that compares the version strings instead of the tuples.
Version_lt_string(a, b) ==
    string_lt(IF Falsy(a) THEN <<>> ELSE a, IF Falsy(b) THEN <<>> ELSE b)

Version_lt(a, b) == tuple_lt(as_tuple(a), as_tuple(b))

Version_eq(a, b) == as_tuple(a) = as_tuple(b)

\* Version defines no __gt__: a > b is evaluated as the reflected b < a.
Version_gt(a, b) == Version_lt(b, a)


(***************************************************************************)
(* src/requirement.py, src/changelog.py                                    *)
(***************************************************************************)
\* A Requirement object; a changelog's raw entry carries the same keys
\* (Requirement(**changes)), a key it leaves out taking the default None.
Req(name, added, deprecated, removed, items) ==
    [name |-> name, added |-> added, deprecated |-> deprecated,
     removed |-> removed, notes |-> None, items |-> items]

\* The list of a Requirement's items is the set of its elements; NoItems is
\* the default None (`name in None` raises TypeError).
NoItems == {None}

\* The parameters of Requirement(**changes): a key the entry leaves out
\* takes its default.
kwargs(changes) ==
    LET given(key, default) ==
            IF key \in DOMAIN changes THEN changes[key] ELSE default
    IN  [name |-> changes.name,
         added |-> given("added", None),
         deprecated |-> given("deprecated", None),
         removed |-> given("removed", None),
         notes |-> given("notes", None),
         items |-> given("items", NoItems)]

\* ValueError('Require atleast one version (added, deprecated, or removed).')
RequireOneVersion ==
    <<"Require atleast one version (added, deprecated, or removed).">>

\* TypeError of a call without the positional parameter `name`
MissingName ==
    <<"Requirement.__init__() missing 1 required positional argument: ",
      "'", "name", "'">>

\* An Optional[Requirement] is <<>> for None and <<r>> for the object r.
\* get_requirement returns [raises, msg, value]: the exception raised with
\* its message, if any, and the value returned.
NoError == "none"

\* The variant whose Requirement.__init__ accepts an entry without
\* versions.
get_requirement_any(changelog, feature) ==
    IF feature \notin DOMAIN changelog
    THEN [raises |-> NoError, msg |-> None, value |-> <<>>]
    ELSE IF DOMAIN changelog[feature] = {}
    THEN [raises |-> NoError, msg |-> None, value |-> <<>>]
    ELSE IF "name" \notin DOMAIN changelog[feature]
    THEN [raises |-> "TypeError", msg |-> MissingName, value |-> <<>>]
    ELSE [raises |-> NoError, msg |-> None,
          value |-> <<kwargs(changelog[feature])>>]

\* self.changelog.get(feature, None) is falsy for a missing key and for an
\* empty entry; Requirement(**changes) raises TypeError without a name and
\* ValueError when none of added, deprecated, removed is populated.
get_requirement(changelog, feature) ==
    IF feature \notin DOMAIN changelog
    THEN [raises |-> NoError, msg |-> None, value |-> <<>>]
    ELSE IF DOMAIN changelog[feature] = {}
    THEN [raises |-> NoError, msg |-> None, value |-> <<>>]
    ELSE IF "name" \notin DOMAIN changelog[feature]
    THEN [raises |-> "TypeError", msg |-> MissingName, value |-> <<>>]
    ELSE LET changes == kwargs(changelog[feature])
         IN  IF /\ Falsy(changes.added)
                /\ Falsy(changes.deprecated)
                /\ Falsy(changes.removed)
             THEN [raises |-> "ValueError", msg |-> RequireOneVersion,
                   value |-> <<>>]
             ELSE [raises |-> NoError, msg |-> None, value |-> <<changes>>]

(***************************************************************************)
(* src/constants.py                                                        *)
(***************************************************************************)
MULTIPLE_CONTEXT_MANAGERS == <<"multiple context managers">>
YIELD_FROM_EXPRESSION     == <<"yield from expressions">>
UNICODE_LITERALS          == <<"unicode literals">>
ASYNC_AND_AWAIT           == <<"async and await">>
FSTRING_LITERALS          == <<"f-string literals">>
AITER_AND_ANEXT           == <<"aiter and anext">>
ASYNC_COMPREHENSIONS      == <<"asynchronous comprehensions">>
VARIABLE_ANNOTATIONS      == <<"variable annotations">>
POSONLY_ARGUMENTS         == <<"positional-only arguments">>
WALRUS_OPERATOR           == <<"assignment expressions">>
GENERIC_TYPE_HINTS        == <<"type hinting generics">>
UNION_TYPE_HINTING        == <<"union type operator">>
MATCH_STATEMENT           == <<"match statements">>

(***************************************************************************)
(* Exception messages (str tokens).  A message built from a value contains *)
(* the tokens of that value.                                               *)
(***************************************************************************)
\* ValueError('Invalid version string.')
InvalidVersion == <<"Invalid version string.">>

\* repr of a str without quotes in it
repr(s) == <<"'">> \o s \o <<"'">>

\* f'Could not find a requirement for {feature!r}.'
CouldNotFind(feature) ==
    <<"Could not find a requirement for ">> \o repr(feature) \o <<".">>

\* The interpreter's messages: a missing attribute, `x in None`, and
\* `None + str`.
NoAttribute(class, attribute) ==
    repr(<<class>>) \o <<" object has no attribute ">>
    \o repr(<<attribute>>)

NotIterable == <<"argument of type 'NoneType' is not iterable">>

UnsupportedOperand ==
    <<"unsupported operand type(s) for +: 'NoneType' and 'str'">>

(***************************************************************************)
(* src/analyzer.py: the accumulation state and its update methods.         *)
(* The methods of one handler run in sequence on the record                *)
(*   [dv, lr, mr, imp, look, err, msg]                                     *)
(* (detected_version, language_requirements, module_requirements,          *)
(* imported, lookups, error, message); once err is set the exception       *)
(* propagates and the rest of the handler does nothing.                    *)
(***************************************************************************)
Acc ==
    [dv |-> detected_version, lr |-> language_requirements,
     mr |-> module_requirements, imp |-> imported, look |-> lookups,
     err |-> error, msg |-> message]

\* raise exception(message)
Raise(acc, exception, message_) ==
    IF acc.err # NoError THEN acc
    ELSE [acc EXCEPT !.err = exception, !.msg = message_]

\* The variant that lowers the version as well as raising it.
update_version_any(acc, version) ==
    IF acc.err # NoError THEN acc
    ELSE IF ~Version(version) \/ ~Version(acc.dv)
    THEN Raise(acc, "ValueError", InvalidVersion)
    ELSE IF ~Version_eq(version, acc.dv)
    THEN [acc EXCEPT !.dv = version]
    ELSE acc

update_version(acc, version) ==
    IF acc.err # NoError THEN acc
    ELSE IF ~Version(version) \/ ~Version(acc.dv)
    THEN Raise(acc, "ValueError", InvalidVersion)
    ELSE IF Version_gt(version, acc.dv)
    THEN [acc EXCEPT !.dv = version]
    ELSE acc

\* The variant in which the last occurrence of a key wins.
add_language_requirement_last(acc, feature, requirement) ==
    IF acc.err # NoError \/ requirement = <<>> THEN acc
    ELSE LET a1 == update_version(acc, requirement[1].added)
         IN  IF a1.err # NoError THEN a1
             ELSE [a1 EXCEPT !.lr =
                      (feature :> requirement[1]) @@ @]

add_language_requirement(acc, feature, requirement) ==
    IF acc.err # NoError \/ requirement = <<>> THEN acc
    ELSE IF feature \notin DOMAIN acc.lr
    THEN LET a1 == update_version(acc, requirement[1].added)
         IN  IF a1.err # NoError THEN a1
             ELSE [a1 EXCEPT !.lr =
                      (feature :> requirement[1]) @@ @]
    ELSE acc

add_module_requirement(acc, name, requirement) ==
    IF acc.err # NoError \/ requirement = <<>> THEN acc
    ELSE IF name \notin DOMAIN acc.mr
    THEN LET a1 == update_version(acc, requirement[1].added)
         IN  IF a1.err # NoError THEN a1
             ELSE [a1 EXCEPT !.mr =
                      (name :> requirement[1]) @@ @]
    ELSE acc

\* A call of <changelog>.get_requirement(key), recorded in the history.
Looked(acc, category, key) ==
    IF acc.err # NoError THEN acc
    ELSE [acc EXCEPT !.look = @ \cup {<<category, key>>}]

add_feature_requirement(acc, feature) ==
    LET r == get_requirement(features, feature)
    IN  IF acc.err # NoError THEN acc
        ELSE IF r.raises # NoError
        THEN Raise(Looked(acc, "features", feature), r.raises, r.msg)
        ELSE IF r.value # <<>>
        THEN add_language_requirement(
                 Looked(acc, "features", feature), feature, r.value)
        ELSE Raise(Looked(acc, "features", feature), "ValueError",
                   CouldNotFind(feature))

_check_module(acc, name) ==
    LET r == get_requirement(modules, name)
    IN  IF acc.err # NoError THEN acc
        ELSE IF r.raises # NoError
        THEN Raise(Looked(acc, "modules", name), r.raises, r.msg)
        ELSE add_module_requirement(
                 Looked(acc, "modules", name), name, r.value)

_check_exception(acc, exception) ==
    LET r == get_requirement(exceptions, exception)
    IN  IF acc.err # NoError THEN acc
        ELSE IF r.raises # NoError
        THEN Raise(Looked(acc, "exceptions", exception), r.raises, r.msg)
        ELSE add_language_requirement(
                 Looked(acc, "exceptions", exception), exception, r.value)

\* The variant without the aiter/anext special case.
_check_function_plain(acc, function) ==
    LET r == get_requirement(functions, function)
    IN  IF acc.err # NoError THEN acc
        ELSE IF r.raises # NoError
        THEN Raise(Looked(acc, "functions", function), r.raises, r.msg)
        ELSE add_language_requirement(
                 Looked(acc, "functions", function), function, r.value)

_check_function(acc, function) ==
    LET r == get_requirement(functions, function)
    IN  IF acc.err # NoError THEN acc
        ELSE IF r.raises # NoError
        THEN Raise(Looked(acc, "functions", function), r.raises, r.msg)
        ELSE IF r.value # <<>>
        THEN add_language_requirement(
                 Looked(acc, "functions", function),
                 IF function \in {<<"aiter">>, <<"anext">>}
                 THEN AITER_AND_ANEXT ELSE function,
                 r.value)
        ELSE Looked(acc, "functions", function)


(***************************************************************************)
(* ast nodes                                                               *)
(***************************************************************************)
Node(kind, id, aux, n, kids) ==
    [kind |-> kind, id |-> id, aux |-> aux, n |-> n, kids |-> kids]

\* An optional child that is absent (returns, annotation, type, module).
NoNode == Node("None", None, None, 0, <<>>)

Name(id)                == Node("Name", <<id>>, None, 0, <<>>)
Attribute(value, attr)  == Node("Attribute", <<attr>>, None, 0, <<value>>)
Call(func, arguments)   == Node("Call", None, None, 0, <<func>> \o arguments)
Constant(kind)          == Node("Constant", None, kind, 0, <<>>)
Subscript(value, slice) == Node("Subscript", None, None, 0, <<value, slice>>)
BinOp(left, right)      == Node("BinOp", None, None, 0, <<left, right>>)
Tuple(elts)             == Node("Tuple", None, None, 0, elts)
Expr(value)             == Node("Expr", None, None, 0, <<value>>)
Pass                    == Node("Pass", None, None, 0, <<>>)
\* alias: name and asname.  Import: names.  ImportFrom: module and names.
alias(name, asname)     == Node("alias", name, asname, 0, <<>>)
Import(names)           == Node("Import", None, None, 0, names)
ImportFrom(module, names) == Node("ImportFrom", module, None, 0, names)
\* Raise: exc.  Try: body and handlers.  ExceptHandler: type and body; n
\* tells whether the optional first child is present.
RaiseStmt(exc)          == Node("Raise", None, None, 1, <<exc>>)
Try(body, handlers)     == Node("Try", None, None, 0, body \o handlers)
ExceptHandler(type, body) ==
    Node("ExceptHandler", None, None, 1, <<type>> \o body)
\* arg: its name, the parameter list it belongs to (aux) and its annotation.
\* arguments: the arg nodes in _fields order (posonlyargs, args, vararg,
\* kwonlyargs, kwarg).
arg(name, list, annotation) ==
    Node("arg", <<name>>, <<list>>, 0,
         IF annotation = NoNode THEN <<>> ELSE <<annotation>>)
arguments(params)       == Node("arguments", None, None, 0, params)
\* FunctionDef: args, body, returns (n tells whether returns is present).
FunctionDef(params, body, returns) ==
    Node("FunctionDef", <<"f">>, None,
         IF returns = NoNode THEN 0 ELSE 1,
         <<params>> \o body \o (IF returns = NoNode THEN <<>> ELSE <<returns>>))
AsyncFunctionDef(params, body, returns) ==
    Node("AsyncFunctionDef", <<"f">>, None,
         IF returns = NoNode THEN 0 ELSE 1,
         <<params>> \o body \o (IF returns = NoNode THEN <<>> ELSE <<returns>>))
\* AnnAssign: target, annotation, value.
AnnAssign(target, annotation, value) ==
    Node("AnnAssign", None, None, 0, <<target, annotation, value>>)
JoinedStr               == Node("JoinedStr", None, None, 0, <<>>)
NamedExpr(target, value) == Node("NamedExpr", None, None, 0, <<target, value>>)
Match(subject, cases)   == Node("Match", None, None, 0, <<subject>> \o cases)
match_case(body)        == Node("match_case", None, None, 0,
                                <<Node("MatchAs", None, None, 0, <<>>)>> \o body)
withitem(context_expr)  == Node("withitem", None, None, 0, <<context_expr>>)
With(items, body)       == Node("With", None, None, 0, items \o body)
YieldFrom(value)        == Node("YieldFrom", None, None, 0, <<value>>)
Await(value)            == Node("Await", None, None, 0, <<value>>)
\* comprehension: target, iter; n is is_async.
comprehension(target, iter, is_async) ==
    Node("comprehension", None, None, is_async, <<target, iter>>)
ListComp(elt, generators) == Node("ListComp", None, None, 0, <<elt>> \o generators)
Module(body)            == Node("Module", None, None, 0, body)

\* The classes for which the Analyzer defines a visit_<class> method.
Handled ==
    {"Import", "ImportFrom", "Attribute", "Call", "Raise", "ExceptHandler",
     "FunctionDef", "AsyncFunctionDef", "AnnAssign", "Constant", "JoinedStr",
     "NamedExpr", "Match", "With", "YieldFrom", "arguments", "comprehension"}

(***************************************************************************)
(* src/analyzer.py: helpers over nodes                                     *)
(***************************************************************************)
RECURSIVE _get_attribute_name(_)
_get_attribute_name(node) ==
    IF node.kind = "Name" THEN node.id
    ELSE IF node.kind = "Attribute"
    THEN _get_attribute_name(node.kids[1]) \o <<".">> \o node.id
    ELSE <<>>

\* What the generator _find_annotations does, in order, while it is
\* iterated: "name" yields a string, "union" is the add_feature_requirement
\* call of the BinOp branch, "generator" yields a generator object (the
\* Tuple branch yields self._find_annotations(element) itself, which nobody
\* iterates).
Event(t, s) == [t |-> t, s |-> s]

RECURSIVE _find_annotations(_)
_find_annotations(node) ==
    IF node.kind = "Name" THEN <<Event("name", node.id)>>
    ELSE IF node.kind = "Attribute"
    THEN <<Event("name", _get_attribute_name(node))>>
    ELSE IF node.kind = "Subscript"
    THEN _find_annotations(node.kids[1]) \o _find_annotations(node.kids[2])
    ELSE IF node.kind = "BinOp"
    THEN <<Event("union", None)>>
         \o _find_annotations(node.kids[1])
         \o _find_annotations(node.kids[2])
    ELSE IF node.kind = "Tuple"
    THEN [i \in 1..Len(node.kids) |-> Event("generator", None)]
    ELSE <<>>

\* The body of _check_annotation's loop for one yielded value.
CheckAnnotationName(acc, ev) ==
    LET name == IF ev.t = "name" /\ ev.s \in DOMAIN acc.imp
                THEN acc.imp[ev.s] \o <<".">> \o ev.s
                ELSE ev.s
        r    == get_requirement(features, GENERIC_TYPE_HINTS)
        a1   == Looked(acc, "registry", name)
    IN  IF acc.err # NoError THEN acc
        ELSE IF r.raises # NoError
        THEN Raise(a1, r.raises, r.msg)
        ELSE IF r.value = <<>>
        THEN Raise(a1, "AttributeError", NoAttribute("NoneType", "items"))
        ELSE IF r.value[1].items = NoItems
        THEN Raise(a1, "TypeError", NotIterable)
        ELSE IF ev.t = "name" /\ name \in r.value[1].items
        THEN add_feature_requirement(a1, GENERIC_TYPE_HINTS)
        ELSE a1

RECURSIVE CheckAnnotationEvents(_, _)
CheckAnnotationEvents(acc, events) ==
    IF events = <<>> \/ acc.err # NoError THEN acc
    ELSE CheckAnnotationEvents(
             IF Head(events).t = "union"
             THEN add_feature_requirement(acc, UNION_TYPE_HINTING)
             ELSE CheckAnnotationName(acc, Head(events)),
             Tail(events))

_check_annotation(acc, node) ==
    CheckAnnotationEvents(acc, _find_annotations(node))


(***************************************************************************)
(* src/analyzer.py: the visit_<class> handlers, each up to its closing     *)
(* super().generic_visit(node)                                             *)
(***************************************************************************)
RECURSIVE ImportNames(_, _)
ImportNames(acc, names) ==
    IF names = <<>> \/ acc.err # NoError THEN acc
    ELSE ImportNames(_check_module(acc, Head(names).id), Tail(names))

visit_Import(acc, node) == ImportNames(acc, node.kids)

RECURSIVE ImportFromNames(_, _, _)
ImportFromNames(acc, module, names) ==
    IF names = <<>> \/ acc.err # NoError THEN acc
    ELSE LET name == Head(names).id
             a1   == [acc EXCEPT !.imp = (name :> module) @@ @]
         IN  ImportFromNames(
                 IF name = <<"*">> THEN _check_module(acc, module)
                 ELSE IF module = None
                 THEN Raise(_check_module(a1, module), "TypeError",
                            UnsupportedOperand)
                 ELSE _check_module(_check_module(a1, module),
                                    module \o <<".">> \o name),
                 module, Tail(names))

\* The variant that checks the module alone.
visit_ImportFrom_module(acc, node) == _check_module(acc, node.id)

visit_ImportFrom(acc, node) == ImportFromNames(acc, node.id, node.kids)

\* The variant without the test for 'self.'.
visit_Attribute_noself(acc, node) ==
    IF _get_attribute_name(node) # <<>>
    THEN _check_module(acc, _get_attribute_name(node))
    ELSE acc

visit_Attribute(acc, node) ==
    IF _get_attribute_name(node) # <<>>
    THEN IF ~startswith(_get_attribute_name(node), <<"self", ".">>)
         THEN _check_module(acc, _get_attribute_name(node))
         ELSE acc
    ELSE acc

visit_Call(acc, node) ==
    IF node.kids[1].kind = "Name"
    THEN _check_function(acc, node.kids[1].id)
    ELSE acc

\* node.exc.func.id and name.id exist on Name nodes only.
visit_Raise(acc, node) ==
    LET exc == IF node.n = 1 THEN node.kids[1] ELSE NoNode
    IN  IF exc.kind = "Name" THEN _check_exception(acc, exc.id)
        ELSE IF exc.kind = "Call"
        THEN IF exc.kids[1].kind = "Name"
             THEN _check_exception(acc, exc.kids[1].id)
             ELSE Raise(acc, "AttributeError",
                        NoAttribute(exc.kids[1].kind, "id"))
        ELSE acc

RECURSIVE ExceptNames(_, _)
ExceptNames(acc, elts) ==
    IF elts = <<>> \/ acc.err # NoError THEN acc
    ELSE ExceptNames(
             IF Head(elts).kind = "Name"
             THEN _check_exception(acc, Head(elts).id)
             ELSE Raise(acc, "AttributeError",
                        NoAttribute(Head(elts).kind, "id")),
             Tail(elts))

visit_ExceptHandler(acc, node) ==
    LET type == IF node.n = 1 THEN node.kids[1] ELSE NoNode
    IN  IF type.kind = "Name" THEN _check_exception(acc, type.id)
        ELSE IF type.kind = "Tuple" THEN ExceptNames(acc, type.kids)
        ELSE acc

returns(node) == IF node.n = 1 THEN node.kids[Len(node.kids)] ELSE NoNode

visit_FunctionDef(acc, node) == _check_annotation(acc, returns(node))

visit_AsyncFunctionDef(acc, node) ==
    _check_annotation(add_feature_requirement(acc, ASYNC_AND_AWAIT),
                      returns(node))

visit_AnnAssign(acc, node) ==
    _check_annotation(add_feature_requirement(acc, VARIABLE_ANNOTATIONS),
                      node.kids[2])

visit_Constant(acc, node) ==
    IF node.aux = <<"u">>
    THEN add_feature_requirement(acc, UNICODE_LITERALS)
    ELSE acc

visit_JoinedStr(acc, node) == add_feature_requirement(acc, FSTRING_LITERALS)

visit_NamedExpr(acc, node) == add_feature_requirement(acc, WALRUS_OPERATOR)

visit_Match(acc, node) == add_feature_requirement(acc, MATCH_STATEMENT)

items(node) == SelectSeq(node.kids, LAMBDA k : k.kind = "withitem")

\* The variant that fires on every with statement.
visit_With_any(acc, node) ==
    IF Len(items(node)) > 0
    THEN add_feature_requirement(acc, MULTIPLE_CONTEXT_MANAGERS)
    ELSE acc

visit_With(acc, node) ==
    IF Len(items(node)) > 1
    THEN add_feature_requirement(acc, MULTIPLE_CONTEXT_MANAGERS)
    ELSE acc

visit_YieldFrom(acc, node) ==
    add_feature_requirement(acc, YIELD_FROM_EXPRESSION)

RECURSIVE ArgAnnotations(_, _)
ArgAnnotations(acc, params) ==
    IF params = <<>> \/ acc.err # NoError THEN acc
    ELSE ArgAnnotations(
             _check_annotation(acc,
                 IF Head(params).kids = <<>> THEN NoNode
                 ELSE Head(params).kids[1]),
             Tail(params))

\* itertools.chain(node.args, node.posonlyargs, node.kwonlyargs)
visit_arguments(acc, node) ==
    LET list(l) == SelectSeq(node.kids, LAMBDA k : k.aux = <<l>>)
    IN  ArgAnnotations(
            IF list("posonlyargs") # <<>>
            THEN add_feature_requirement(acc, POSONLY_ARGUMENTS)
            ELSE acc,
            list("args") \o list("posonlyargs") \o list("kwonlyargs"))

visit_comprehension(acc, node) ==
    IF node.n # 0
    THEN add_feature_requirement(acc, ASYNC_COMPREHENSIONS)
    ELSE acc

\* The variant without the isinstance test.
generic_visit_any(acc, node) == add_feature_requirement(acc, ASYNC_AND_AWAIT)

generic_visit(acc, node) ==
    IF node.kind \in {"AsyncFor", "AsyncWith", "Await"}
    THEN add_feature_requirement(acc, ASYNC_AND_AWAIT)
    ELSE acc


(***************************************************************************)
(* The changelogs the Analyzer is constructed with.  The data files are    *)
(* read from disk by Changelog.__init__; their content is an input.        *)
(***************************************************************************)
v3_0  == <<"3", ".", "0">>
v3_1  == <<"3", ".", "1">>
v3_3  == <<"3", ".", "3">>
v3_4  == <<"3", ".", "4">>
v3_5  == <<"3", ".", "5">>
v3_6  == <<"3", ".", "6">>
v3_7  == <<"3", ".", "7">>
v3_8  == <<"3", ".", "8">>
v3_9  == <<"3", ".", "9">>
v3_10 == <<"3", ".", "1", "0">>
v3_11 == <<"3", ".", "1", "1">>
v3_12 == <<"3", ".", "1", "2">>

Added(name, version) == name :> Req(name, version, None, None, NoItems)

\* The registry of generic collection types (the items of the entry
\* 'type hinting generics').
GenericTypes == {<<"list">>, <<"dict">>, <<"collections", ".", "deque">>}

\* data/language.json, with the versions constants.py documents.
LanguageChangelog ==
    Added(MULTIPLE_CONTEXT_MANAGERS, v3_1)
    @@ Added(YIELD_FROM_EXPRESSION, v3_3)
    @@ Added(UNICODE_LITERALS, v3_3)
    @@ Added(ASYNC_AND_AWAIT, v3_5)
    @@ Added(FSTRING_LITERALS, v3_6)
    @@ Added(ASYNC_COMPREHENSIONS, v3_6)
    @@ Added(VARIABLE_ANNOTATIONS, v3_6)
    @@ Added(POSONLY_ARGUMENTS, v3_8)
    @@ Added(WALRUS_OPERATOR, v3_8)
    @@ (GENERIC_TYPE_HINTS :>
           Req(GENERIC_TYPE_HINTS, v3_9, None, None, GenericTypes))
    @@ Added(UNION_TYPE_HINTING, v3_10)
    @@ Added(MATCH_STATEMENT, v3_10)

ExceptionsChangelog ==
    Added(<<"RecursionError">>, v3_5)
    @@ Added(<<"ModuleNotFoundError">>, v3_6)

\* The two paired built-ins with the same and with different versions.
FunctionsChangelogs ==
    { Added(<<"aiter">>, v3_10) @@ Added(<<"anext">>, v3_10),
      Added(<<"aiter">>, v3_10) @@ Added(<<"anext">>, v3_11) }

\* 'imp' has no `added`: it is deprecated and removed only.
ModulesChangelog ==
    Added(<<"asyncio">>, v3_4)
    @@ (<<"imp">> :> Req(<<"imp">>, None, v3_4, v3_12, NoItems))
    @@ Added(<<"os", ".", "path", ".", "splitroot">>, v3_12)
    @@ Added(<<"self", ".", "cache">>, v3_9)

(***************************************************************************)
(* The scripts analysed: every body of up to MaxStmts of these statements. *)
(***************************************************************************)
Stmts ==
    { \* pass
      Pass,
      \* import asyncio
      Import(<<alias(<<"asyncio">>, None)>>),
      \* import imp
      Import(<<alias(<<"imp">>, None)>>),
      \* from os import path
      ImportFrom(<<"os">>, <<alias(<<"path">>, None)>>),
      \* from self import cache
      ImportFrom(<<"self">>, <<alias(<<"cache">>, None)>>),
      \* from asyncio import run
      ImportFrom(<<"asyncio">>, <<alias(<<"run">>, None)>>),
      \* from asyncio import *
      ImportFrom(<<"asyncio">>, <<alias(<<"*">>, None)>>),
      \* from collections import deque as dq
      ImportFrom(<<"collections">>, <<alias(<<"deque">>, <<"dq">>)>>),
      \* from . import x
      ImportFrom(None, <<alias(<<"x">>, None)>>),
      \* path.splitroot
      Expr(Attribute(Name("path"), "splitroot")),
      \* os.path.splitroot
      Expr(Attribute(Attribute(Name("os"), "path"), "splitroot")),
      \* self.cache.get
      Expr(Attribute(Attribute(Name("self"), "cache"), "get")),
      \* aiter(x)
      Expr(Call(Name("aiter"), <<Name("x")>>)),
      \* anext(x)
      Expr(Call(Name("anext"), <<Name("x")>>)),
      \* raise RecursionError
      RaiseStmt(Name("RecursionError")),
      \* raise RecursionError(f'')
      RaiseStmt(Call(Name("RecursionError"), <<JoinedStr>>)),
      \* raise mod.Error()
      RaiseStmt(Call(Attribute(Name("mod"), "Error"), <<>>)),
      \* try: pass
      \* except (ModuleNotFoundError, RecursionError): pass
      Try(<<Pass>>,
          <<ExceptHandler(Tuple(<<Name("ModuleNotFoundError"),
                                  Name("RecursionError")>>), <<Pass>>)>>),
      \* try: pass
      \* except (os.error, RecursionError): pass
      Try(<<Pass>>,
          <<ExceptHandler(Tuple(<<Attribute(Name("os"), "error"),
                                  Name("RecursionError")>>), <<Pass>>)>>),
      \* def f(*a: list[int], **k: int | str): pass
      FunctionDef(
          arguments(<<arg("a", "vararg",
                          Subscript(Name("list"), Name("int"))),
                      arg("k", "kwarg",
                          BinOp(Name("int"), Name("str")))>>),
          <<Pass>>,
          NoNode),
      \* def f(a: list[int], /) -> Optional[int | str]: yield from a
      FunctionDef(
          arguments(<<arg("a", "posonlyargs",
                          Subscript(Name("list"), Name("int")))>>),
          <<Expr(YieldFrom(Name("a")))>>,
          Subscript(Name("Optional"), BinOp(Name("int"), Name("str")))),
      \* async def f(): [x async for x in await y]
      AsyncFunctionDef(
          arguments(<<>>),
          <<Expr(ListComp(Name("x"),
                 <<comprehension(Name("x"), Await(Name("y")), 1)>>))>>,
          NoNode),
      \* x: dict[str, int | None] = u''
      AnnAssign(Name("x"),
                Subscript(Name("dict"),
                          Tuple(<<Name("str"),
                                  BinOp(Name("int"), Constant(None))>>)),
                Constant(<<"u">>)),
      \* x: int | list = f''
      AnnAssign(Name("x"), BinOp(Name("int"), Name("list")), JoinedStr),
      \* x: dq = 0
      AnnAssign(Name("x"), Name("dq"), Constant(None)),
      \* x: tuple[int | list, str] = 0
      AnnAssign(Name("x"),
                Subscript(Name("tuple"),
                          Tuple(<<BinOp(Name("int"), Name("list")),
                                  Name("str")>>)),
                Constant(None)),
      \* with a: (y := 1)
      With(<<withitem(Name("a"))>>,
           <<Expr(NamedExpr(Name("y"), Constant(None)))>>),
      \* with a, b: pass
      With(<<withitem(Name("a")), withitem(Name("b"))>>, <<Pass>>),
      \* match x:
      \*     case _: pass
      Match(Name("x"), <<match_case(<<Pass>>)>>) }

Scripts ==
    {Module(body) : body \in UNION {[1..n -> Stmts] : n \in 1..MaxStmts}}

(***************************************************************************)
(* Analyzer.__init__ and Analyzer.visit(tree)                              *)
(***************************************************************************)
Init ==
    /\ tree \in Scripts
    /\ todo = <<tree>>
    /\ features = LanguageChangelog
    /\ exceptions = ExceptionsChangelog
    /\ functions \in FunctionsChangelogs
    /\ modules = ModulesChangelog
    /\ detected_version = v3_0
    /\ language_requirements = <<>>
    /\ module_requirements = <<>>
    /\ imported = <<>>
    /\ lookups = {}
    /\ error = NoError
    /\ message = None
    /\ args = <<>>
    /\ result = <<>>

\* NodeVisitor.visit dispatches the next pending node to its handler.
Dispatched(kind) ==
    /\ error = NoError
    /\ todo # <<>>
    /\ Head(todo).kind = kind

\* The variant that visits the pending nodes before the children.
Step_breadth(a) ==
    /\ detected_version' = a.dv
    /\ language_requirements' = a.lr
    /\ module_requirements' = a.mr
    /\ imported' = a.imp
    /\ lookups' = a.look
    /\ error' = a.err
    /\ message' = a.msg
    /\ todo' = IF a.err = NoError THEN Tail(todo) \o Head(todo).kids
               ELSE todo
    /\ UNCHANGED <<tree, features, exceptions, functions, modules,
                   args, result>>

\* The handler's own check leaves the accumulator a; its closing
\* super().generic_visit(node) then visits the children in order, before
\* the nodes that were already pending.
Step(a) ==
    /\ detected_version' = a.dv
    /\ language_requirements' = a.lr
    /\ module_requirements' = a.mr
    /\ imported' = a.imp
    /\ lookups' = a.look
    /\ error' = a.err
    /\ message' = a.msg
    /\ todo' = IF a.err = NoError THEN Head(todo).kids \o Tail(todo)
               ELSE todo
    /\ UNCHANGED <<tree, features, exceptions, functions, modules,
                   args, result>>

Visit_Import == Dispatched("Import") /\ Step(visit_Import(Acc, Head(todo)))

Visit_ImportFrom ==
    Dispatched("ImportFrom") /\ Step(visit_ImportFrom(Acc, Head(todo)))

Visit_Attribute ==
    Dispatched("Attribute") /\ Step(visit_Attribute(Acc, Head(todo)))

Visit_Call == Dispatched("Call") /\ Step(visit_Call(Acc, Head(todo)))

Visit_Raise == Dispatched("Raise") /\ Step(visit_Raise(Acc, Head(todo)))

Visit_ExceptHandler ==
    Dispatched("ExceptHandler") /\ Step(visit_ExceptHandler(Acc, Head(todo)))

Visit_FunctionDef ==
    Dispatched("FunctionDef") /\ Step(visit_FunctionDef(Acc, Head(todo)))

Visit_AsyncFunctionDef ==
    /\ Dispatched("AsyncFunctionDef")
    /\ Step(visit_AsyncFunctionDef(Acc, Head(todo)))

Visit_AnnAssign ==
    Dispatched("AnnAssign") /\ Step(visit_AnnAssign(Acc, Head(todo)))

Visit_Constant ==
    Dispatched("Constant") /\ Step(visit_Constant(Acc, Head(todo)))

Visit_JoinedStr ==
    Dispatched("JoinedStr") /\ Step(visit_JoinedStr(Acc, Head(todo)))

Visit_NamedExpr ==
    Dispatched("NamedExpr") /\ Step(visit_NamedExpr(Acc, Head(todo)))

Visit_Match == Dispatched("Match") /\ Step(visit_Match(Acc, Head(todo)))

Visit_With == Dispatched("With") /\ Step(visit_With(Acc, Head(todo)))

Visit_YieldFrom ==
    Dispatched("YieldFrom") /\ Step(visit_YieldFrom(Acc, Head(todo)))

Visit_arguments ==
    Dispatched("arguments") /\ Step(visit_arguments(Acc, Head(todo)))

Visit_comprehension ==
    Dispatched("comprehension") /\ Step(visit_comprehension(Acc, Head(todo)))

\* Every other class goes to the overridden generic_visit.
Generic_visit ==
    /\ error = NoError
    /\ todo # <<>>
    /\ Head(todo).kind \notin Handled
    /\ Step(generic_visit(Acc, Head(todo)))

Next ==
    \/ Visit_Import
    \/ Visit_ImportFrom
    \/ Visit_Attribute
    \/ Visit_Call
    \/ Visit_Raise
    \/ Visit_ExceptHandler
    \/ Visit_FunctionDef
    \/ Visit_AsyncFunctionDef
    \/ Visit_AnnAssign
    \/ Visit_Constant
    \/ Visit_JoinedStr
    \/ Visit_NamedExpr
    \/ Visit_Match
    \/ Visit_With
    \/ Visit_YieldFrom
    \/ Visit_arguments
    \/ Visit_comprehension
    \/ Generic_visit

Spec == Init /\ [][Next]_vars

\* The traversal has returned from Analyzer.visit(tree).
Done == todo = <<>> /\ error = NoError


(***************************************************************************)
(* Properties                                                              *)
(***************************************************************************)
RECURSIVE Nodes(_)
Nodes(node) ==
    {node} \cup UNION {Nodes(node.kids[i]) : i \in 1..Len(node.kids)}

Changelog(category) ==
    CASE category = "features"   -> features
      [] category = "exceptions" -> exceptions
      [] category = "functions"  -> functions
      [] category = "modules"    -> modules

\* The Requirements the changelog lookups of the triggers returned so far.
Hits ==
    {get_requirement(Changelog(l[1]), l[2]).value[1] :
        l \in {k \in lookups :
                  /\ k[1] # "registry"
                  /\ get_requirement(Changelog(k[1]), k[2]).value # <<>>}}

\* C1: detected_version starts at the baseline '3.0' and no step of the
\* traversal lowers it under Version ordering.
C1_Monotonic ==
    /\ detected_version = v3_0
    /\ [][~Version_lt(detected_version', detected_version)]_vars

\* The version has been raised while both maps were filled.
C1_Witness ==
    /\ Version_gt(detected_version, v3_4)
    /\ language_requirements # <<>>
    /\ module_requirements # <<>>

\* C2: first occurrence wins: a key once inserted in language_requirements
\* or module_requirements is never removed and its Requirement never
\* replaced or altered by a later trigger (each map holds one entry per
\* key).
C2_FirstWins ==
    [][/\ \A k \in DOMAIN language_requirements :
             /\ k \in DOMAIN language_requirements'
             /\ language_requirements'[k] = language_requirements[k]
       /\ \A k \in DOMAIN module_requirements :
             /\ k \in DOMAIN module_requirements'
             /\ module_requirements'[k] = module_requirements[k]]_vars

\* Both paired built-ins were called, the second one after the first had
\* been recorded under the shared key.
C2_Witness ==
    /\ Done
    /\ {<<"functions", <<"aiter">>>>, <<"functions", <<"anext">>>>}
           \subseteq lookups
    /\ DOMAIN language_requirements = {AITER_AND_ANEXT}

\* C3: after a complete traversal detected_version is the maximum of the
\* baseline '3.0' and the `added` versions of every Requirement a trigger's
\* changelog lookup returned.
C3_DetectedIsMaximum ==
    Done =>
        LET found == {v3_0} \cup {h.added : h \in {x \in Hits :
                                                      ~Falsy(x.added)}}
        IN  /\ \A v \in found : ~Version_lt(detected_version, v)
            /\ \E v \in found : Version_eq(detected_version, v)


\* C5: an absent or empty version (None, '') is strictly less than every
\* concrete version detected_version takes, and a step that inserts only
\* Requirements without `added` leaves detected_version unchanged.
C5_AbsentIsLeast ==
    [][/\ \A absent \in {None, <<>>} :
             /\ Version_lt(absent, detected_version')
             /\ ~Version_lt(detected_version', absent)
       /\ LET new == DOMAIN module_requirements' \ DOMAIN module_requirements
          IN  (/\ new # {}
               /\ \A k \in new : Falsy(module_requirements'[k].added)
               /\ language_requirements' = language_requirements)
              => detected_version' = detected_version]_vars

\* 'imp' (deprecated and removed only) was inserted after the version had
\* been raised.
C5_Witness ==
    /\ Done
    /\ <<"imp">> \in DOMAIN module_requirements
    /\ Falsy(module_requirements[<<"imp">>].added)
    /\ Version_gt(detected_version, v3_0)

RECURSIVE Root(_)
Root(node) ==
    IF node.kind = "Name" THEN node.id
    ELSE IF node.kind = "Attribute" THEN Root(node.kids[1])
    ELSE <<>>

\* C6: import/attribute equivalence: after `from M import A`, an attribute
\* access `A.b` is looked up in the modules changelog under the key
\* `M.A.b`, the key the direct access `M.A.b` is looked up under, and is
\* recorded under it when the changelog has it.
C6_ImportAttributeEquivalence ==
    Done =>
        \A i \in 1..Len(tree.kids) : \A j \in (i + 1)..Len(tree.kids) :
            LET imp == tree.kids[i]
                use == tree.kids[j]
            IN  (/\ imp.kind = "ImportFrom"
                 /\ use.kind = "Expr"
                 /\ use.kids[1].kind = "Attribute"
                 /\ \E k \in 1..Len(imp.kids) :
                        imp.kids[k].id = Root(use.kids[1]))
                => LET key == imp.id \o <<".">>
                                 \o _get_attribute_name(use.kids[1])
                   IN  /\ <<"modules", key>> \in lookups
                       /\ key \in DOMAIN modules
                              => key \in DOMAIN module_requirements

SelfDot == <<"self", ".">>

\* C7 as stated: no key starting with 'self.' is ever present in
\* module_requirements, whatever the modules changelog contains.
C7_NoSelfKeyEver ==
    \A k \in DOMAIN module_requirements : ~startswith(k, SelfDot)

\* C7: the visit of an attribute node looks up no key starting with 'self.'
\* in the modules changelog and adds no such key to module_requirements:
\* a chain rooted at the bare name `self`, and each of its sub-chains,
\* leaves the lookups and module_requirements as they were.
C7_SelfAttributeExcluded ==
    [][(error = NoError /\ todo # <<>> /\ Head(todo).kind = "Attribute")
       => /\ \A l \in lookups' \ lookups : ~startswith(l[2], SelfDot)
          /\ \A k \in DOMAIN module_requirements'
                        \ DOMAIN module_requirements :
                 ~startswith(k, SelfDot)
          /\ Root(Head(todo)) = <<"self">>
                 => /\ lookups' = lookups
                    /\ module_requirements' = module_requirements]_vars

\* The chain self.cache.get has been visited down to its root, with
\* 'self.cache' a key of the modules changelog.
C7_Witness ==
    /\ Done
    /\ \E node \in Nodes(tree) :
           /\ node.kind = "Attribute"
           /\ _get_attribute_name(node) = <<"self", ".", "cache">>
    /\ <<"self", ".", "cache">> \in DOMAIN modules
    /\ <<"self", ".", "cache">> \notin DOMAIN module_requirements

\* The tree has a with statement of more than one item.
HasMultipleWith ==
    \E node \in Nodes(tree) :
        /\ node.kind = "With"
        /\ Cardinality({i \in 1..Len(node.kids) :
                           node.kids[i].kind = "withitem"}) > 1

\* C8: after the traversal 'multiple context managers' is recorded if and
\* only if some with statement of the tree has more than one item, and
\* detected_version is then at least the version that feature was added in.
C8_MultipleContextManagers ==
    Done =>
        /\ MULTIPLE_CONTEXT_MANAGERS \in DOMAIN language_requirements
               <=> HasMultipleWith
        /\ HasMultipleWith =>
               ~Version_lt(detected_version,
                           features[MULTIPLE_CONTEXT_MANAGERS].added)

\* A two-item with statement was recorded, and it set the version.
C8_Witness ==
    /\ Done
    /\ HasMultipleWith
    /\ MULTIPLE_CONTEXT_MANAGERS \in DOMAIN language_requirements
    /\ detected_version = v3_1

\* The bare names the calls of the tree call.
CalledNames ==
    {node.kids[1].id :
        node \in {c \in Nodes(tree) :
                     c.kind = "Call" /\ c.kids[1].kind = "Name"}}

\* C9: with `aiter` and `anext` in the functions changelog, a script that
\* calls either or both ends with the entry 'aiter and anext' and with no
\* entry 'aiter' or 'anext'.
C9_MergedAlias ==
    (/\ Done
     /\ {<<"aiter">>, <<"anext">>} \subseteq DOMAIN functions
     /\ CalledNames \cap {<<"aiter">>, <<"anext">>} # {})
    => /\ AITER_AND_ANEXT \in DOMAIN language_requirements
       /\ <<"aiter">> \notin DOMAIN language_requirements
       /\ <<"anext">> \notin DOMAIN language_requirements

\* Both built-ins were called.
C9_Witness ==
    /\ Done
    /\ {<<"aiter">>, <<"anext">>} \subseteq CalledNames
    /\ AITER_AND_ANEXT \in DOMAIN language_requirements

\* The annotations the Analyzer checks: of annotated assignments, of
\* parameters and of return types.
Annotations ==
    {node.kids[2] : node \in {a \in Nodes(tree) : a.kind = "AnnAssign"}}
    \cup {node.kids[1] :
             node \in {a \in Nodes(tree) : a.kind = "arg" /\ a.kids # <<>>}}
    \cup {returns(node) :
             node \in {f \in Nodes(tree) :
                          /\ f.kind \in {"FunctionDef", "AsyncFunctionDef"}
                          /\ f.n = 1}}

\* A binary-or at the top level of an annotation, or nested in its
\* subscripts and tuples.
RECURSIVE HasUnion(_)
HasUnion(node) ==
    \/ node.kind = "BinOp"
    \/ /\ node.kind \in {"Subscript", "Tuple"}
       /\ \E i \in 1..Len(node.kids) : HasUnion(node.kids[i])

\* C10: a script with an annotation that contains `X | Y`, at its top level
\* or nested inside a subscript or a tuple, ends with the entry
\* 'union type operator' in language_requirements.
C10_UnionRecorded ==
    (Done /\ \E a \in Annotations : HasUnion(a))
    => UNION_TYPE_HINTING \in DOMAIN language_requirements

(***************************************************************************)
(* Version comparison on its own: the operands are drawn from sample       *)
(* version strings, each written with the tuple of integers it spells.     *)
(***************************************************************************)
Sample(s, t) == [s |-> s, t |-> t]

VersionSamples ==
    { Sample(v3_0, <<3, 0>>), Sample(v3_1, <<3, 1>>),
      Sample(v3_9, <<3, 9>>), Sample(v3_10, <<3, 10>>),
      Sample(v3_11, <<3, 11>>), Sample(v3_12, <<3, 12>>),
      Sample(<<"3", ".", "0", "1">>, <<3, 1>>),
      Sample(v3_1 \o <<".", "0">>, <<3, 1, 0>>),
      Sample(v3_9 \o <<".", "1">>, <<3, 9, 1>>),
      Sample(v3_9 \o <<".", "1", "0">>, <<3, 9, 10>>),
      Sample(v3_10 \o <<".", "0">>, <<3, 10, 0>>),
      Sample(v3_10 \o <<".", "2">>, <<3, 10, 2>>),
      Sample(v3_10 \o <<".", "1", "1">>, <<3, 10, 11>>) }

InitVersion ==
    /\ args \in VersionSamples \X VersionSamples
    /\ result = <<>>
    /\ tree = Module(<<>>)
    /\ todo = <<>>
    /\ features = <<>>
    /\ exceptions = <<>>
    /\ functions = <<>>
    /\ modules = <<>>
    /\ detected_version = v3_0
    /\ language_requirements = <<>>
    /\ module_requirements = <<>>
    /\ imported = <<>>
    /\ lookups = {}
    /\ error = NoError
    /\ message = None

\* Version(a) < Version(b), Version(a) > Version(b), Version(a) == Version(b)
Compare ==
    /\ result = <<>>
    /\ Version(args[1].s) /\ Version(args[2].s)
    /\ result' = <<[lt |-> Version_lt(args[1].s, args[2].s),
                    gt |-> Version_gt(args[1].s, args[2].s),
                    eq |-> Version_eq(args[1].s, args[2].s)]>>
    /\ UNCHANGED <<tree, todo, features, exceptions, functions, modules,
                   detected_version, language_requirements,
                   module_requirements, imported, lookups, error, message,
                   args>>

SpecVersion == InitVersion /\ [][Compare]_vars

\* The order of two tuples of two or three components below 99, the shorter
\* of two that agree being the smaller.
Weight(t) == t[1] * 10000 + t[2] * 100 + (IF Len(t) = 3 THEN t[3] + 1 ELSE 0)

\* C4: Version(a) < Version(b) exactly when the tuple of integers a spells
\* is less than the one b spells (element-wise, a proper prefix being the
\* smaller); Version(a) > Version(b) mirrors Version(b) < Version(a);
\* Version('3.9') < Version('3.10').
C4_VersionOrdering ==
    result # <<>> =>
        /\ result[1].lt <=> Weight(args[1].t) < Weight(args[2].t)
        /\ result[1].gt <=> Weight(args[2].t) < Weight(args[1].t)
        /\ (args[1].s = v3_9 /\ args[2].s = v3_10) => result[1].lt

\* '3.9' was compared with '3.10'.
C4_Witness ==
    /\ result # <<>>
    /\ args[1].s = v3_9 /\ args[2].s = v3_10
    /\ result[1].lt /\ ~result[1].gt

(***************************************************************************)
(* A language changelog that lacks the entry of one fixed constant         *)
(***************************************************************************)
\* The constants of constants.py that add_feature_requirement is called
\* with.
FixedConstants ==
    {MULTIPLE_CONTEXT_MANAGERS, YIELD_FROM_EXPRESSION, UNICODE_LITERALS,
     ASYNC_AND_AWAIT, FSTRING_LITERALS, ASYNC_COMPREHENSIONS,
     VARIABLE_ANNOTATIONS, POSONLY_ARGUMENTS, WALRUS_OPERATOR,
     GENERIC_TYPE_HINTS, UNION_TYPE_HINTING, MATCH_STATEMENT}

\* data/language.json without the entry of one constant.
Without(changelog, key) ==
    [k \in DOMAIN changelog \ {key} |-> changelog[k]]

\* Analyzer.__init__ with such a file, and Analyzer.visit of a script of
\* one statement.
InitMissing ==
    /\ tree \in {Module(<<s>>) : s \in Stmts}
    /\ todo = <<tree>>
    /\ features \in {Without(LanguageChangelog, k) : k \in FixedConstants}
    /\ exceptions = ExceptionsChangelog
    /\ functions \in FunctionsChangelogs
    /\ modules = ModulesChangelog
    /\ detected_version = v3_0
    /\ language_requirements = <<>>
    /\ module_requirements = <<>>
    /\ imported = <<>>
    /\ lookups = {}
    /\ error = NoError
    /\ message = None
    /\ args = <<>>
    /\ result = <<>>

SpecMissing == InitMissing /\ [][Next]_vars

\* The text s occurs in the text t.
Contains(t, s) ==
    \E i \in 1..(Len(t) - Len(s) + 1) : SubSeq(t, i, i + Len(s) - 1) = s

\* The trigger of a fixed constant has fired: add_feature_requirement was
\* called with it or, for 'type hinting generics', an annotation name of
\* the generic types registry was checked.
Triggered(feature) ==
    \/ <<"features", feature>> \in lookups
    \/ /\ feature = GENERIC_TYPE_HINTS
       /\ \E name \in GenericTypes : <<"registry", name>> \in lookups

\* C11: in a step in which the trigger of a fixed constant fires while the
\* language changelog has no entry for that constant, the analysis aborts
\* with an error whose message contains the missing feature key; this holds
\* for every fixed constant, 'type hinting generics' included.
C11_MissingKeyIdentified ==
    [][\A k \in FixedConstants :
          (k \notin DOMAIN features /\ ~Triggered(k) /\ Triggered(k)')
              => (error' # NoError /\ Contains(message', k))]_vars

(***************************************************************************)
(* find_changes.py.  Names and patterns are spelled character by           *)
(* character here, because fnmatch matches characters.  A raw changelog    *)
(* entry (a JSON object) is a function whose DOMAIN is the keys the entry  *)
(* has; a JSON null is None.                                               *)
(***************************************************************************)
\* The index in rest (the pattern after a "[") of the "]" that closes the
\* class, 0 when there is none: fnmatch.translate skips a leading "!" and
\* a "]" right after it before it searches.
ClassEnd(rest) ==
    LET j1 == IF Len(rest) >= 1 /\ rest[1] = "!" THEN 2 ELSE 1
        j2 == IF Len(rest) >= j1 /\ rest[j1] = "]" THEN j1 + 1 ELSE j1
        closing == {j \in j2..Len(rest) : rest[j] = "]"}
    IN  IF closing = {} THEN 0
        ELSE CHOOSE j \in closing : \A k \in closing : j <= k

\* A character against the class rest[1..end-1] ([seq] and [!seq]; the
\* characters of seq stand for themselves, ranges a-z are not spelled out).
InClass(c, rest, end) ==
    LET negated == rest[1] = "!"
        seq     == {rest[i] : i \in (IF negated THEN 2 ELSE 1)..(end - 1)}
    IN  IF negated THEN c \notin seq ELSE c \in seq

\* fnmatch.fnmatch(name, pat) on a POSIX system, where os.path.normcase
\* returns its argument: the whole name matches the translated pattern.
RECURSIVE fnmatch(_, _)
fnmatch(name, pat) ==
    IF pat = <<>> THEN name = <<>>
    ELSE IF Head(pat) = "*"
    THEN \/ fnmatch(name, Tail(pat))
         \/ name # <<>> /\ fnmatch(Tail(name), pat)
    ELSE IF Head(pat) = "?"
    THEN name # <<>> /\ fnmatch(Tail(name), Tail(pat))
    ELSE IF Head(pat) = "[" /\ ClassEnd(Tail(pat)) # 0
    THEN LET end == ClassEnd(Tail(pat))
         IN  /\ name # <<>>
             /\ InClass(Head(name), Tail(pat), end)
             /\ fnmatch(Tail(name), SubSeq(pat, end + 2, Len(pat)))
    ELSE name # <<>> /\ Head(name) = Head(pat)
                     /\ fnmatch(Tail(name), Tail(pat))

\* The variant that keeps an entry when the pattern matches a prefix of its
\* name.
find_changes_prefix(changelog, pattern, version, action) ==
    LET kept  == {name \in DOMAIN changelog :
                     \E i \in 0..Len(name) :
                         fnmatch(SubSeq(name, 1, i), pattern)}
        found == [name \in kept |-> get_requirement(changelog, name)]
    IN  [raises |-> NoError, value |-> [name \in kept |-> found[name].value]]

\* find_changes returns [raises, value]: value is the dict results, name to
\* Optional[Requirement]; an exception of get_requirement ends the call.  `action in changes.keys()` is a test on the keys
\* of the entry, `version in changes.values()` a test on all its values (a
\* list of items is never equal to a str).
find_changes(changelog, pattern, version, action) ==
    LET kept  == {name \in DOMAIN changelog :
                     /\ fnmatch(name, pattern)
                     /\ ~(/\ ~Falsy(action)
                          /\ action[1] \notin DOMAIN changelog[name])
                     /\ ~(/\ ~Falsy(version)
                          /\ ~\E k \in DOMAIN changelog[name] \ {"items"} :
                                 changelog[name][k] = version)}
        found == [name \in kept |-> get_requirement(changelog, name)]
    IN  IF \E name \in kept : found[name].raises # NoError
        THEN [raises |-> found[CHOOSE name \in kept :
                                  found[name].raises # NoError].raises,
              value |-> <<>>]
        ELSE [raises |-> NoError,
              value |-> [name \in kept |-> found[name].value]]

\* Entries of a data file: a module added, one added and removed, one
\* deprecated and removed, one whose `removed` is null, one whose note is
\* a version, one spelled in upper case.
RawEntries ==
    { [name |-> <<"o", "s", ".", "x">>, added |-> v3_4],
      [name |-> <<"o", "s">>, added |-> v3_1, removed |-> v3_9],
      [name |-> <<"i", "m", "p">>, deprecated |-> v3_4, removed |-> v3_12],
      [name |-> <<"o", "s", "x">>, added |-> v3_8, removed |-> None],
      [name |-> <<"o", "s", ".", "y">>, added |-> v3_9, notes |-> v3_4],
      [name |-> <<"O", "S", ".", "x">>, deprecated |-> v3_9,
       items |-> {v3_4}] }

Patterns ==
    { <<"*">>,
      <<"o", "s", ".", "*">>,
      <<"o", "s", "?", "x">>,
      <<"o", "s", "[", ".", "a", "]", "[", "!", "x", "]">>,
      <<"*", "[", "x">>,
      <<"o", "s">> }

InitFind ==
    /\ args \in [changelog : {[n \in {e.name : e \in es} |->
                                 CHOOSE e \in es : e.name = n] :
                              es \in SUBSET RawEntries},
                 pattern : Patterns,
                 version : {None, v3_4, v3_9},
                 action : {None, <<"added">>, <<"deprecated">>,
                           <<"removed">>}]
    /\ result = <<>>
    /\ tree = Module(<<>>)
    /\ todo = <<>>
    /\ features = <<>>
    /\ exceptions = <<>>
    /\ functions = <<>>
    /\ modules = <<>>
    /\ detected_version = v3_0
    /\ language_requirements = <<>>
    /\ module_requirements = <<>>
    /\ imported = <<>>
    /\ lookups = {}
    /\ error = NoError
    /\ message = None

\* find_changes(changelog, pattern, version, action)
Find ==
    /\ result = <<>>
    /\ result' = <<find_changes(args.changelog, args.pattern, args.version,
                                args.action)>>
    /\ UNCHANGED <<tree, todo, features, exceptions, functions, modules,
                   detected_version, language_requirements,
                   module_requirements, imported, lookups, error, message,
                   args>>

SpecFind == InitFind /\ [][Find]_vars

\* C12: find_changes without a version and an action filter returns exactly
\* the entries whose name matches the glob pattern, each with its
\* Requirement; pattern 'os.*' returns exactly the entries whose name
\* starts with 'os.', and pattern '*' returns every entry.
C12_NameFilter ==
    (result # <<>> /\ Falsy(args.version) /\ Falsy(args.action)) =>
        LET names == DOMAIN args.changelog
            r     == result[1]
        IN  /\ r.raises = NoError
            /\ DOMAIN r.value = {n \in names : fnmatch(n, args.pattern)}
            /\ \A n \in DOMAIN r.value :
                   r.value[n] = <<kwargs(args.changelog[n])>>
            /\ args.pattern = <<"o", "s", ".", "*">> =>
                   DOMAIN r.value =
                       {n \in names : startswith(n, <<"o", "s", ".">>)}
            /\ args.pattern = <<"*">> => DOMAIN r.value = names
            /\ args.pattern = <<"o", "s">> =>
                   DOMAIN r.value = names \cap {<<"o", "s">>}

\* 'os.*' on a changelog holding 'os.x', 'os', 'osx' and 'OS.x' returned
\* 'os.x' alone.
C12_Witness ==
    /\ result # <<>>
    /\ Falsy(args.version) /\ Falsy(args.action)
    /\ args.pattern = <<"o", "s", ".", "*">>
    /\ {<<"o", "s">>, <<"o", "s", "x">>, <<"O", "S", ".", "x">>}
           \subseteq DOMAIN args.changelog
    /\ DOMAIN result[1].value = {<<"o", "s", ".", "x">>}

\* C13: with pattern '*', find_changes with an action filter F alone
\* returns exactly the entries whose field F holds a version, and with a
\* version filter V alone exactly the entries that have V in one of added,
\* deprecated, removed.
C13_Filters ==
    (result # <<>> /\ args.pattern = <<"*">>) =>
        LET names    == DOMAIN args.changelog
            r        == result[1]
            field(n) == kwargs(args.changelog[n])
        IN  /\ (~Falsy(args.action) /\ Falsy(args.version)) =>
                   /\ r.raises = NoError
                   /\ DOMAIN r.value =
                          {n \in names : ~Falsy(field(n)[args.action[1]])}
            /\ (Falsy(args.action) /\ ~Falsy(args.version)) =>
                   /\ r.raises = NoError
                   /\ DOMAIN r.value =
                          {n \in names :
                              args.version \in {field(n).added,
                                                field(n).deprecated,
                                                field(n).removed}}

(***************************************************************************)
(* Coverage of the tree                                                    *)
(***************************************************************************)
\* The nodes of a list of trees in pre-order: each node, then its subtrees
\* from left to right, then the next tree.
RECURSIVE Preorder(_)
Preorder(nodes) ==
    IF nodes = <<>> THEN <<>>
    ELSE <<Head(nodes)>> \o Preorder(Head(nodes).kids)
         \o Preorder(Tail(nodes))

\* The key a handled node's own check records, whatever it is nested in.
Detected(node) ==
    CASE node.kind = "YieldFrom" ->
             YIELD_FROM_EXPRESSION \in DOMAIN language_requirements
      [] node.kind \in {"AsyncFunctionDef", "Await"} ->
             ASYNC_AND_AWAIT \in DOMAIN language_requirements
      [] node.kind = "comprehension" /\ node.n = 1 ->
             ASYNC_COMPREHENSIONS \in DOMAIN language_requirements
      [] node.kind = "AnnAssign" ->
             VARIABLE_ANNOTATIONS \in DOMAIN language_requirements
      [] node.kind = "JoinedStr" ->
             FSTRING_LITERALS \in DOMAIN language_requirements
      [] node.kind = "NamedExpr" ->
             WALRUS_OPERATOR \in DOMAIN language_requirements
      [] node.kind = "Match" ->
             MATCH_STATEMENT \in DOMAIN language_requirements
      [] node.kind = "Constant" /\ node.aux = <<"u">> ->
             UNICODE_LITERALS \in DOMAIN language_requirements
      [] node.kind = "Call" /\ node.kids[1].kind = "Name" ->
             <<"functions", node.kids[1].id>> \in lookups
      [] node.kind = "Import" ->
             \A i \in 1..Len(node.kids) :
                 <<"modules", node.kids[i].id>> \in lookups
      [] node.kind = "Raise" /\ node.n = 1 /\ node.kids[1].kind = "Name" ->
             <<"exceptions", node.kids[1].id>> \in lookups
      [] OTHER -> TRUE

ImportKeys(node) ==
    IF node.kind = "Import"
    THEN {node.kids[i].id : i \in 1..Len(node.kids)}
    ELSE {node.id} \cup
         {node.id \o <<".">> \o node.kids[i].id :
              i \in {j \in 1..Len(node.kids) : node.kids[j].id # <<"*">>}}

\* C15: the step that dispatches an import statement looks up exactly the
\* keys N, resp. M, resp. M and M.A, and inserts every one of them that the
\* modules changelog holds into module_requirements under that key, each
\* independently of the others.
C15_ImportResolution ==
    [][(/\ error = NoError
        /\ todo # <<>>
        /\ Head(todo).kind \in {"Import", "ImportFrom"}
        /\ error' = NoError) =>
           LET keys == ImportKeys(Head(todo))
           IN  /\ lookups' = lookups \cup {<<"modules", k>> : k \in keys}
               /\ DOMAIN module_requirements' =
                      DOMAIN module_requirements
                          \cup (keys \cap DOMAIN modules)
               /\ \A k \in keys \cap DOMAIN modules :
                      k \notin DOMAIN module_requirements =>
                          module_requirements'[k] = modules[k]]_vars

\* `from asyncio import run` recorded 'asyncio' though 'asyncio.run' is
\* absent, and `from self import cache` recorded 'self.cache' though 'self'
\* is absent.
C15_Witness ==
    /\ Done
    /\ tree = Module(<<ImportFrom(<<"asyncio">>, <<alias(<<"run">>, None)>>),
                       ImportFrom(<<"self">>, <<alias(<<"cache">>, None)>>)>>)
    /\ DOMAIN module_requirements =
           {<<"asyncio">>, <<"self", ".", "cache">>}
    /\ lookups = {<<"modules", <<"asyncio">>>>,
                  <<"modules", <<"asyncio", ".", "run">>>>,
                  <<"modules", <<"self">>>>,
                  <<"modules", <<"self", ".", "cache">>>>}

(***************************************************************************)
(* Analyzer.report: the order of the listing.  A requirements dict is the  *)
(* sequence of its items [key, req] in insertion order; names are spelled  *)
(* character by character, because str comparison is by character.         *)
(***************************************************************************)
\* The characters of the names below in the order of their code points.
CodePoints == <<".", "B", "a", "b", "c", "d">>

\* str.__lt__
str_lt(a, b) ==
    LET ord(c) == CHOOSE i \in 1..Len(CodePoints) : CodePoints[i] = c
    IN  tuple_lt([i \in 1..Len(a) |-> ord(a[i])],
                 [i \in 1..Len(b) |-> ord(b[i])])

\* Requirement.versions
versions(r) == <<r.added, r.deprecated, r.removed>>

\* The variant that compares `added` and then the name.
Requirement_lt_added(a, b) ==
    IF Version_lt(a.added, b.added) THEN TRUE
    ELSE IF Version_gt(a.added, b.added) THEN FALSE
    ELSE str_lt(a.name, b.name)

\* Requirement.__lt__: the first pair of zipped versions that differs as
\* Version decides, then the name.
Requirement_lt(a, b) ==
    LET differ == {i \in 1..3 :
                      \/ Version_lt(versions(a)[i], versions(b)[i])
                      \/ Version_gt(versions(a)[i], versions(b)[i])}
    IN  IF differ = {} THEN str_lt(a.name, b.name)
        ELSE Version_lt(versions(a)[Min(differ)], versions(b)[Min(differ)])

\* Requirement.__eq__: str(self) == str(other), the join of all fields.
Requirement_eq(a, b) == a = b

\* itemgetter(1, 0) of two items compared as tuples: the first element
\* that is not == decides.
key_lt(x, y) ==
    IF Requirement_eq(x.req, y.req) THEN str_lt(x.key, y.key)
    ELSE Requirement_lt(x.req, y.req)

\* sorted(requirements.items(), key=itemgetter(1, 0)): a stable sort that
\* uses < of the keys only; each item goes before the first one it is
\* smaller than.
RECURSIVE sorted(_)
sorted(list) ==
    IF list = <<>> THEN <<>>
    ELSE LET front  == sorted(SubSeq(list, 1, Len(list) - 1))
             x      == list[Len(list)]
             before == {i \in 1..Len(front) : key_lt(x, front[i])}
             k      == IF before = {} THEN Len(front) + 1 ELSE Min(before)
         IN  SubSeq(front, 1, k - 1) \o <<x>>
             \o SubSeq(front, k, Len(front))

\* The two listings report prints for one requirements dict: the features
\* with `added`, and the features deprecated or removed.
report(requirements) ==
    LET has_added(x)   == ~Falsy(x.req.added)
        has_warning(x) == ~Falsy(x.req.deprecated) \/ ~Falsy(x.req.removed)
    IN  [added    |-> SelectSeq(sorted(requirements), has_added),
         warnings |-> SelectSeq(sorted(requirements), has_warning)]

\* Features of one requirements dict at most.
MaxFeatures == 3

\* Requirements as the changelogs hold them (the key is the name).
ReportSamples ==
    { Req(<<"a">>, v3_4, v3_9, None, NoItems),
      Req(<<"b">>, v3_4, None, None, NoItems),
      Req(<<"B">>, v3_4, None, v3_12, NoItems),
      Req(<<"a", "b">>, v3_10, None, None, NoItems),
      Req(<<"c">>, v3_9, None, None, NoItems),
      Req(<<"c", ".", "d">>, v3_9, None, None, NoItems),
      Req(<<"d">>, None, v3_4, v3_12, NoItems) }

InitReport ==
    /\ args \in {list \in UNION {[1..n -> {[key |-> r.name, req |-> r] :
                                              r \in ReportSamples}] :
                                 n \in 1..MaxFeatures} :
                    \A i, j \in 1..Len(list) :
                        i # j => list[i].key # list[j].key}
    /\ result = <<>>
    /\ tree = Module(<<>>)
    /\ todo = <<>>
    /\ features = <<>>
    /\ exceptions = <<>>
    /\ functions = <<>>
    /\ modules = <<>>
    /\ detected_version = v3_0
    /\ language_requirements = <<>>
    /\ module_requirements = <<>>
    /\ imported = <<>>
    /\ lookups = {}
    /\ error = NoError
    /\ message = None

\* Analyzer.report on one requirements dict
Report ==
    /\ result = <<>>
    /\ result' = <<report(args)>>
    /\ UNCHANGED <<tree, todo, features, exceptions, functions, modules,
                   detected_version, language_requirements,
                   module_requirements, imported, lookups, error, message,
                   args>>

SpecReport == InitReport /\ [][Report]_vars

\* Two features of a listing that have the same `added` version.
SameAdded(listing) ==
    {p \in (1..Len(listing)) \X (1..Len(listing)) :
        /\ p[1] < p[2]
        /\ Version_eq(listing[p[1]].req.added, listing[p[2]].req.added)}

Component(s, numeric, value) == [s |-> s, numeric |-> numeric, value |-> value]

ComponentSamples ==
    { Component(<<"3">>, TRUE, 3),
      Component(<<"0">>, TRUE, 0),
      Component(<<"1", "1">>, TRUE, 11),
      Component(<<"-", "1">>, TRUE, 0 - 1),
      Component(<<"+", "3">>, TRUE, 3),
      Component(<<" ", "2", "_", "0">>, TRUE, 20),
      Component(<<"x">>, FALSE, 0),
      Component(<<>>, FALSE, 0) }

\* Components of a version text at most.
MaxComponents == 4

\* '.'.join of the spellings
RECURSIVE join(_)
join(components) ==
    IF Len(components) = 1 THEN components[1].s
    ELSE components[1].s \o <<".">> \o join(Tail(components))

InitConstruct ==
    /\ args \in {[components |-> c, text |-> join(c)] :
                    c \in UNION {[1..n -> ComponentSamples] :
                                    n \in 1..MaxComponents}}
                \cup {[components |-> <<>>, text |-> None]}
    /\ result = <<>>
    /\ tree = Module(<<>>)
    /\ todo = <<>>
    /\ features = <<>>
    /\ exceptions = <<>>
    /\ functions = <<>>
    /\ modules = <<>>
    /\ detected_version = v3_0
    /\ language_requirements = <<>>
    /\ module_requirements = <<>>
    /\ imported = <<>>
    /\ lookups = {}
    /\ error = NoError
    /\ message = None

\* Version(text): the exception Version.__init__ raises, if any
Construct ==
    /\ result = <<>>
    /\ result' = <<IF Version(args.text) THEN NoError ELSE "ValueError">>
    /\ UNCHANGED <<tree, todo, features, exceptions, functions, modules,
                   detected_version, language_requirements,
                   module_requirements, imported, lookups, error, message,
                   args>>

SpecConstruct == InitConstruct /\ [][Construct]_vars

\* C17: Version(text) raises for every non-empty text that has not 2 or 3
\* dot-separated components, or a component that is no integer, or a
\* negative component, or a major component other than 3; it constructs
\* for every text of 2 or 3 non-negative integers whose first is 3, and for
\* the empty and the absent text.
C17_Construction ==
    result # <<>> =>
        LET c     == args.components
            empty == args.text \in {None, <<>>}
            arity == Len(c) \in {2, 3}
            ints  == \A i \in 1..Len(c) : c[i].numeric
            signs == \A i \in 1..Len(c) : c[i].numeric => c[i].value >= 0
            major == c[1].numeric => c[1].value = 3
        IN  /\ (~empty /\ ~(arity /\ ints /\ signs /\ major)) =>
                   result[1] = "ValueError"
            /\ (empty \/ (arity /\ ints /\ signs /\ major)) =>
                   result[1] = NoError

\* Version('3.11.-1') raised.
C17_Witness ==
    /\ result = <<"ValueError">>
    /\ args.text = <<"3", ".", "1", "1", ".", "-", "1">>

(***************************************************************************)
(* Changelog.get_requirement on one entry of any shape                     *)
(***************************************************************************)
\* The entries of a data file over the keys name, added, deprecated and
\* removed: each key absent or present, a version key holding null, '' or
\* a version.
EntrySamples ==
    UNION {{e \in [keys -> {<<"m">>, None, <<>>, v3_4}] :
               \A k \in keys : (k = "name") <=> (e[k] = <<"m">>)} :
           keys \in SUBSET {"name", "added", "deprecated", "removed"}}

InitEntry ==
    /\ args \in EntrySamples
    /\ result = <<>>
    /\ tree = Module(<<>>)
    /\ todo = <<>>
    /\ features = <<>>
    /\ exceptions = <<>>
    /\ functions = <<>>
    /\ modules = <<>>
    /\ detected_version = v3_0
    /\ language_requirements = <<>>
    /\ module_requirements = <<>>
    /\ imported = <<>>
    /\ lookups = {}
    /\ error = NoError
    /\ message = None

\* Changelog.get_requirement('m') on a changelog holding the entry as 'm'
GetRequirement ==
    /\ result = <<>>
    /\ result' = <<get_requirement(<<"m">> :> args, <<"m">>)>>
    /\ UNCHANGED <<tree, todo, features, exceptions, functions, modules,
                   detected_version, language_requirements,
                   module_requirements, imported, lookups, error, message,
                   args>>

SpecEntry == InitEntry /\ [][GetRequirement]_vars

\* One of added, deprecated, removed of the entry holds a version.
Populated(entry) ==
    \E k \in {"added", "deprecated", "removed"} \cap DOMAIN entry :
        ~Falsy(entry[k])

\* C18 as stated: get_requirement on an entry with none of added,
\* deprecated, removed populated raises.
C18_UnpopulatedRaises ==
    (result # <<>> /\ ~Populated(args)) => result[1].raises # NoError

\* C18, amended: every Requirement that get_requirement returns has one of
\* added, deprecated, removed populated; on an entry with none of them
\* populated it raises when the entry has any key, and returns None, as
\* for a missing key, when the entry is empty.
C18_NoEmptyRequirement ==
    result # <<>> =>
        LET r == result[1]
        IN  /\ r.value # <<>> =>
                   /\ Populated(args)
                   /\ \/ ~Falsy(r.value[1].added)
                      \/ ~Falsy(r.value[1].deprecated)
                      \/ ~Falsy(r.value[1].removed)
            /\ (~Populated(args) /\ DOMAIN args # {}) =>
                   r.raises # NoError /\ r.value = <<>>
            /\ DOMAIN args = {} => r.raises = NoError /\ r.value = <<>>

\* get_requirement raised ValueError on {'name': 'm', 'added': '',
\* 'removed': null}.
C18_Witness ==
    /\ result # <<>>
    /\ result[1].raises = "ValueError"
    /\ DOMAIN args = {"name", "added", "removed"}
    /\ args["added"] = <<>> /\ args["removed"] = None

(***************************************************************************)
(* Changelog.__init__                                                      *)
(***************************************************************************)
\* A source: a path without a file, a file that json.load rejects, or a
\* file holding a JSON object, given by the dict json.load makes of it.
Sources ==
    {[file |-> "missing", value |-> <<>>],
     [file |-> "malformed", value |-> <<>>]}
    \cup {[file |-> "json", value |-> (<<"m">> :> e)] : e \in EntrySamples}

\* Changelog(path): [raises, changelog].  open raises for a missing file,
\* json.load for a malformed one; what json.load returns is kept as it is.
Changelog_init(source) ==
    IF source.file = "missing"
    THEN [raises |-> "FileNotFoundError", changelog |-> <<>>]
    ELSE IF source.file = "malformed"
    THEN [raises |-> "JSONDecodeError", changelog |-> <<>>]
    ELSE [raises |-> NoError, changelog |-> source.value]

InitLoad ==
    /\ args \in Sources
    /\ result = <<>>
    /\ tree = Module(<<>>)
    /\ todo = <<>>
    /\ features = <<>>
    /\ exceptions = <<>>
    /\ functions = <<>>
    /\ modules = <<>>
    /\ detected_version = v3_0
    /\ language_requirements = <<>>
    /\ module_requirements = <<>>
    /\ imported = <<>>
    /\ lookups = {}
    /\ error = NoError
    /\ message = None

\* Changelog(path)
Load ==
    /\ result = <<>>
    /\ result' = <<Changelog_init(args)>>
    /\ UNCHANGED <<tree, todo, features, exceptions, functions, modules,
                   detected_version, language_requirements,
                   module_requirements, imported, lookups, error, message,
                   args>>

SpecLoad == InitLoad /\ [][Load]_vars

\* C19: Changelog(path) raises when the source is missing, malformed, or
\* holds an entry that lacks all three of added, deprecated, removed; no
\* Changelog is constructed that holds such an entry.
C19_LoadValidates ==
    result # <<>> =>
        /\ (\/ args.file \in {"missing", "malformed"}
            \/ \E name \in DOMAIN args.value : ~Populated(args.value[name]))
               => result[1].raises # NoError
        /\ result[1].raises = NoError =>
               \A name \in DOMAIN result[1].changelog :
                   Populated(result[1].changelog[name])

(***************************************************************************)
(* Names inside annotations                                                *)
(***************************************************************************)
\* The names an annotation refers to, at its top level or inside its
\* subscripts, unions and tuples.
RECURSIVE ReferencedNames(_)
ReferencedNames(node) ==
    IF node.kind \in {"Name", "Attribute"} THEN {_get_attribute_name(node)}
    ELSE IF node.kind \in {"Subscript", "BinOp", "Tuple"}
    THEN UNION {ReferencedNames(node.kids[i]) : i \in 1..Len(node.kids)}
    ELSE {}

\* C20: a script with an annotation that refers to a name of the generic
\* types registry, be it only inside a tuple of types, ends with the entry
\* 'type hinting generics' in language_requirements.
C20_TupleNamesChecked ==
    (Done /\ \E a \in Annotations : ReferencedNames(a) \cap GenericTypes # {})
    => GENERIC_TYPE_HINTS \in DOMAIN language_requirements

(***************************************************************************)
(* Imported names                                                          *)
(***************************************************************************)
\* The name an alias binds in the script: asname when there is one, name
\* otherwise.
LocalName(a) == IF a.aux = None THEN a.id ELSE a.aux

\* C21: the step that dispatches `from M import ...` leaves every name the
\* statement binds locally mapped to M in `imported`: A for
\* `from M import A` and B (not A) for `from M import A as B`.
C21_LocalNameBound ==
    [][(/\ error = NoError
        /\ todo # <<>>
        /\ Head(todo).kind = "ImportFrom"
        /\ error' = NoError) =>
           \A i \in 1..Len(Head(todo).kids) :
               LET a == Head(todo).kids[i]
               IN  a.id # <<"*">> =>
                       /\ LocalName(a) \in DOMAIN imported'
                       /\ imported'[LocalName(a)] = Head(todo).id]_vars

(***************************************************************************)
(* Annotations of parameters, return types and variables                   *)
(***************************************************************************)
\* The annotations present on a node: of every parameter of a parameter
\* list, whatever its kind, the return annotation of a function
\* definition, the annotation of an annotated assignment.
OwnAnnotations(node) ==
    IF node.kind = "arguments"
    THEN {node.kids[i].kids[1] :
             i \in {j \in 1..Len(node.kids) : node.kids[j].kids # <<>>}}
    ELSE IF node.kind \in {"FunctionDef", "AsyncFunctionDef"} /\ node.n = 1
    THEN {returns(node)}
    ELSE IF node.kind = "AnnAssign" THEN {node.kids[2]}
    ELSE {}

\* C22: the step that dispatches a parameter list, a function definition
\* or an annotated assignment passes every annotation present on the node
\* to the annotation helper: every name the helper finds in it is checked
\* against the generic types registry and every `X | Y` in it is looked up
\* as 'union type operator', for the annotations of `*args` and `**kwargs`
\* as for those of the other parameters.
C22_EveryAnnotationChecked ==
    [][(/\ error = NoError
        /\ todo # <<>>
        /\ error' = NoError) =>
           \A a \in OwnAnnotations(Head(todo)) :
               \A i \in 1..Len(_find_annotations(a)) :
                   LET ev   == _find_annotations(a)[i]
                       name == IF ev.s \in DOMAIN imported
                               THEN imported[ev.s] \o <<".">> \o ev.s
                               ELSE ev.s
                   IN  /\ ev.t = "name" =>
                           <<"registry", name>> \in lookups'
                       /\ ev.t = "union" =>
                           <<"features", UNION_TYPE_HINTING>> \in lookups']_vars

(***************************************************************************)
(* The baseline                                                            *)
(***************************************************************************)
\* The node is one of the language constructs the Analyzer recognises, or
\* carries an annotation that refers to a generic collection type or
\* contains `X | Y`.
Recognised(node) ==
    \/ node.kind \in {"YieldFrom", "AsyncFunctionDef", "AsyncFor",
                      "AsyncWith", "Await", "JoinedStr", "AnnAssign",
                      "NamedExpr", "Match"}
    \/ node.kind = "Constant" /\ node.aux = <<"u">>
    \/ node.kind = "comprehension" /\ node.n # 0
    \/ node.kind = "With" /\ Len(items(node)) > 1
    \/ node.kind = "arg" /\ node.aux = <<"posonlyargs">>
    \/ \E a \in OwnAnnotations(node) :
           \/ HasUnion(a)
           \/ \E name \in ReferencedNames(a) :
                  \/ name \in GenericTypes
                  \/ /\ name \in DOMAIN imported
                     /\ imported[name] \o <<".">> \o name \in GenericTypes

\* The lookups of names (modules, exceptions, functions) that returned a
\* Requirement.
NameHits ==
    {l \in lookups :
        /\ l[1] \in {"modules", "exceptions", "functions"}
        /\ get_requirement(Changelog(l[1]), l[2]).value # <<>>}

\* No trigger matches: the tree has no recognised construct and no lookup
\* of a name hit its changelog.
NoTrigger ==
    /\ \A node \in Nodes(tree) : ~Recognised(node)
    /\ NameHits = {}

\* C23: the traversal of a tree in which no trigger matches ends with
\* detected_version equal to the baseline '3.0' and with
\* language_requirements and module_requirements both empty.
C23_Baseline ==
    (Done /\ NoTrigger) =>
        /\ detected_version = v3_0
        /\ language_requirements = <<>>
        /\ module_requirements = <<>>

\* `from os import path` and `path.splitroot` were traversed: four keys
\* were looked up in the modules changelog and none was found.
C23_Witness ==
    /\ Done
    /\ NoTrigger
    /\ tree = Module(<<ImportFrom(<<"os">>, <<alias(<<"path">>, None)>>),
                       Expr(Attribute(Name("path"), "splitroot"))>>)
    /\ lookups = {<<"modules", <<"os">>>>,
                  <<"modules", <<"os", ".", "path">>>>,
                  <<"modules", <<"path", ".", "splitroot">>>>}
    /\ detected_version = v3_0
    /\ language_requirements = <<>>
    /\ module_requirements = <<>>

(***************************************************************************)
(* A modules changelog with malformed version strings                      *)
(***************************************************************************)
\* Analyzer.__init__ with a data/modules.json whose entry 'asyncio' has
\* '3.4', a malformed string or nothing in `added`, and a malformed string
\* or nothing in `deprecated` and in `removed`; Analyzer.visit of a script
\* of one statement.
InitInvalid ==
    /\ tree \in {Module(<<s>>) : s \in Stmts}
    /\ todo = <<tree>>
    /\ features = LanguageChangelog
    /\ exceptions = ExceptionsChangelog
    /\ functions \in FunctionsChangelogs
    /\ modules \in
           {(<<"asyncio">> :> Req(<<"asyncio">>, a, d, r, NoItems))
                @@ ModulesChangelog :
               a \in {None, v3_4, <<"3", ".", "x">>, <<"2", ".", "7">>},
               d \in {None, <<"3">>},
               r \in {None, <<"a", "b", "c">>}}
    /\ detected_version = v3_0
    /\ language_requirements = <<>>
    /\ module_requirements = <<>>
    /\ imported = <<>>
    /\ lookups = {}
    /\ error = NoError
    /\ message = None
    /\ args = <<>>
    /\ result = <<>>

SpecInvalid == InitInvalid /\ [][Next]_vars

\* Each of added, deprecated and removed is a well-formed version string
\* or absent.
WellFormed(r) ==
    /\ valid_version(r.added)
    /\ valid_version(r.deprecated)
    /\ valid_version(r.removed)

\* C24: every Requirement stored in language_requirements or
\* module_requirements is well-formed in added, deprecated and removed,
\* and the lookup of a changelog entry with a malformed version in any of
\* the three ends the analysis with an error.
C24_OnlyValidVersions ==
    /\ \A k \in DOMAIN language_requirements :
           WellFormed(language_requirements[k])
    /\ \A k \in DOMAIN module_requirements :
           WellFormed(module_requirements[k])
    /\ \A l \in lookups :
           (/\ l[1] # "registry"
            /\ l[2] \in DOMAIN Changelog(l[1])
            /\ ~WellFormed(kwargs(Changelog(l[1])[l[2]])))
               => error # NoError

(***************************************************************************)
(* Statements the handlers' checks do not expect                           *)
(***************************************************************************)
\* C25: the step that dispatches a `from ... import` statement raises no
\* exception and goes on to the statement's children; for a relative
\* import without a module name (`from . import x`) it records no module
\* requirement.
C25_ImportFromCompletes ==
    [][(/\ error = NoError
        /\ todo # <<>>
        /\ Head(todo).kind = "ImportFrom") =>
           /\ error' = NoError
           /\ todo' = Head(todo).kids \o Tail(todo)
           /\ Head(todo).id = None =>
                  module_requirements' = module_requirements]_vars

\* The bare names a raise statement raises (the name itself, or the callee
\* of the call) and an except clause catches (the name itself, or the
\* members of the tuple).
BareNames(node) ==
    LET first == IF node.n = 1 THEN node.kids[1] ELSE NoNode
        of(e) == IF e.kind = "Name" THEN {e.id} ELSE {}
    IN  IF first.kind = "Call" /\ node.kind = "Raise"
        THEN of(first.kids[1])
        ELSE IF first.kind = "Tuple" /\ node.kind = "ExceptHandler"
        THEN UNION {of(first.kids[i]) : i \in 1..Len(first.kids)}
        ELSE of(first)

\* C26: the step that dispatches a raise statement or an except clause
\* raises no exception, looks every bare name of the statement up in the
\* exceptions changelog, and goes on to the statement's children, also
\* when the callee of the raised call or a member of the except tuple is
\* not a bare name.
C26_RaiseExceptCompletes ==
    [][(/\ error = NoError
        /\ todo # <<>>
        /\ Head(todo).kind \in {"Raise", "ExceptHandler"}) =>
           /\ error' = NoError
           /\ todo' = Head(todo).kids \o Tail(todo)
           /\ \A name \in BareNames(Head(todo)) :
                  <<"exceptions", name>> \in lookups']_vars

(***************************************************************************)
(* The order of the statements                                             *)
(***************************************************************************)
\* NodeVisitor.visit: the handler of the node's class, generic_visit for
\* the classes without one.
Handle(acc, node) ==
    CASE node.kind = "Import"           -> visit_Import(acc, node)
      [] node.kind = "ImportFrom"       -> visit_ImportFrom(acc, node)
      [] node.kind = "Attribute"        -> visit_Attribute(acc, node)
      [] node.kind = "Call"             -> visit_Call(acc, node)
      [] node.kind = "Raise"            -> visit_Raise(acc, node)
      [] node.kind = "ExceptHandler"    -> visit_ExceptHandler(acc, node)
      [] node.kind = "FunctionDef"      -> visit_FunctionDef(acc, node)
      [] node.kind = "AsyncFunctionDef" -> visit_AsyncFunctionDef(acc, node)
      [] node.kind = "AnnAssign"        -> visit_AnnAssign(acc, node)
      [] node.kind = "Constant"         -> visit_Constant(acc, node)
      [] node.kind = "JoinedStr"        -> visit_JoinedStr(acc, node)
      [] node.kind = "NamedExpr"        -> visit_NamedExpr(acc, node)
      [] node.kind = "Match"            -> visit_Match(acc, node)
      [] node.kind = "With"             -> visit_With(acc, node)
      [] node.kind = "YieldFrom"        -> visit_YieldFrom(acc, node)
      [] node.kind = "arguments"        -> visit_arguments(acc, node)
      [] node.kind = "comprehension"    -> visit_comprehension(acc, node)
      [] OTHER                          -> generic_visit(acc, node)

\* The whole traversal of the pending nodes, from the accumulator acc: the
\* state it returns with, or the state in which an exception ended it.
RECURSIVE Traverse(_, _)
Traverse(acc, pending) ==
    IF pending = <<>> \/ acc.err # NoError THEN acc
    ELSE LET a == Handle(acc, Head(pending))
         IN  IF a.err # NoError THEN a
             ELSE Traverse(a, Head(pending).kids \o Tail(pending))

\* The scripts with the statements of the tree in another order.
Reordered ==
    {Module([i \in 1..Len(tree.kids) |-> tree.kids[p[i]]]) :
        p \in Permutations(1..Len(tree.kids))}

\* C27: the traversal of a script and the traversal, by an Analyzer with
\* the same changelogs, of the same statements in any other order end with
\* the same detected_version and the same language_requirements and
\* module_requirements (the same keys, the same Requirement under each).
C27_OrderIndependent ==
    Done =>
        \A other \in Reordered :
            LET end == Traverse([dv |-> v3_0, lr |-> <<>>, mr |-> <<>>,
                                 imp |-> <<>>, look |-> {},
                                 err |-> NoError, msg |-> None],
                                <<other>>)
            IN  /\ end.err = NoError
                /\ end.dv = detected_version
                /\ end.lr = language_requirements
                /\ end.mr = module_requirements

====
